---- MODULE Spec2Model ----
(***************************************************************************)
(* Beam bending calculator (src/app.py): one run of the script, from the   *)
(* input widgets through the range checks, the reaction forces and the     *)
(* sampled shear / moment / slope / deflection arrays.                     *)
(*                                                                         *)
(* Numbers.  The script computes in floating point; the model computes the *)
(* same expressions exactly.  Inputs are whole numbers of the unit the     *)
(* widget asks for (m, kN, kN/m, kNm, GPa, cm^4).                          *)
(*                                                                         *)
(*   - A whole number is a sequence of 8 limbs in radix 10000, least       *)
(*     significant first: limbs 1..7 are in 0..9999 and limb 8 carries the *)
(*     sign, so the value of z is z[1] + 10000 z[2] + ... + 10000^7 z[8].  *)
(*   - A denominator is a product of powers of the primes in Primes,       *)
(*     written as the sequence of its exponents; these primes cover the    *)
(*     lengths, the stiffness and the 999 steps of the grid.               *)
(*   - A scalar is <<z, e>>, the whole number z over the denominator e, in *)
(*     lowest terms.                                                       *)
(*   - An array is <<zs, e>>: the sequence zs of whole numbers over the    *)
(*     one denominator e (not necessarily in lowest terms); Item(a, k) is  *)
(*     its k-th element as a scalar.                                       *)
(*                                                                         *)
(* Sample grid.  The script samples the span at N = 1000 points, and so    *)
(* does the model.  With L = 10 no sample but the two ends is at a whole   *)
(* metre; with L = 9 the samples 1, 112, 223, ... are.  For both lengths   *)
(* the script's float samples compare with the whole-metre positions of    *)
(* the inputs as the exact samples do.                                     *)
(***************************************************************************)
EXTENDS Integers, Sequences, FiniteSets

VARIABLES L, E, I, num_loads, loads, use_udl, w, a_udl, b_udl,
          num_moments, moments, pc, error,
          RA, RB, x_vals, dx, V, M, theta, y

vars == <<L, E, I, num_loads, loads, use_udl, w, a_udl, b_udl,
          num_moments, moments, pc, error,
          RA, RB, x_vals, dx, V, M, theta, y>>

(***************************************************************************)
(* Bounds of the model.                                                    *)
(***************************************************************************)
MaxLoads == 1
MaxMoments == 1

(***************************************************************************)
(* Values the input widgets are given.                                     *)
(***************************************************************************)
LengthValues == {9, 10}
ModulusValues == {2}
InertiaValues == {5000}
(* A point load is <<magnitude in kN, position in m>>. *)
LoadInputs == {<<10, 5>>, <<5, -1>>, <<10, 12>>}
(* A UDL is <<intensity in kN/m, start in m, end in m>>. *)
UdlInputs == {<<2, 2, 6>>, <<2, -1, 2>>, <<2, 6, 2>>, <<2, 2, 12>>}
(* An applied moment is <<magnitude in kNm, position in m>>. *)
MomentInputs == {<<5, 4>>, <<5, 12>>}

(***************************************************************************)
(* Whole numbers of any size.                                              *)
(***************************************************************************)
Radix == 10000

(* The limbs t1..t8 with the carries propagated upwards. *)
Z8(t1, t2, t3, t4, t5, t6, t7, t8) ==
    LET c1 == t1 \div Radix
        u2 == t2 + c1
        c2 == u2 \div Radix
        u3 == t3 + c2
        c3 == u3 \div Radix
        u4 == t4 + c3
        c4 == u4 \div Radix
        u5 == t5 + c4
        c5 == u5 \div Radix
        u6 == t6 + c5
        c6 == u6 \div Radix
        u7 == t7 + c6
        c7 == u7 \div Radix
    IN  <<t1 % Radix, u2 % Radix, u3 % Radix, u4 % Radix,
          u5 % Radix, u6 % Radix, u7 % Radix, t8 + c7>>

ZFromInt(n) == Z8(n, 0, 0, 0, 0, 0, 0, 0)

ZZero == ZFromInt(0)

ZAdd(a, b) ==
    Z8(a[1] + b[1], a[2] + b[2], a[3] + b[3], a[4] + b[4],
       a[5] + b[5], a[6] + b[6], a[7] + b[7], a[8] + b[8])

ZSub(a, b) ==
    Z8(a[1] - b[1], a[2] - b[2], a[3] - b[3], a[4] - b[4],
       a[5] - b[5], a[6] - b[6], a[7] - b[7], a[8] - b[8])

ZNeg(a) == ZSub(ZZero, a)

(* a times the integer m, -200000 <= m <= 200000. *)
ZMulS(a, m) ==
    Z8(a[1] * m, a[2] * m, a[3] * m, a[4] * m,
       a[5] * m, a[6] * m, a[7] * m, a[8] * m)

ZIsNeg(a) == a[8] < 0

ZLe(a, b) == ~ZIsNeg(ZSub(b, a))

ZLt(a, b) == ZIsNeg(ZSub(a, b))

(* a lies in -200000..200000. *)
ZFits(a) ==
    \/ /\ a[8] = 0 /\ a[7] = 0 /\ a[6] = 0 /\ a[5] = 0 /\ a[4] = 0 /\ a[3] = 0
       /\ a[2] < 20
    \/ /\ a[8] = -1 /\ a[7] = Radix - 1 /\ a[6] = Radix - 1 /\ a[5] = Radix - 1
       /\ a[4] = Radix - 1 /\ a[3] = Radix - 1 /\ a[2] >= Radix - 20

(* The integer a, for a with ZFits(a). *)
ZInt(a) ==
    IF ZIsNeg(a) THEN a[1] + Radix * a[2] - Radix * Radix
    ELSE a[1] + Radix * a[2]

(* a times the number made of the limbs i..8 of b. *)
RECURSIVE ZHorner(_, _, _)
ZHorner(a, b, i) ==
    IF i > 8 THEN ZZero
    ELSE ZAdd(ZMulS(ZHorner(a, b, i + 1), Radix), ZMulS(a, b[i]))

ZMul(a, b) ==
    IF ZFits(b) THEN ZMulS(a, ZInt(b))
    ELSE IF ZFits(a) THEN ZMulS(b, ZInt(a))
    ELSE ZHorner(a, b, 1)

(* <<quotient, remainder>> of a by the integer m, 1 <= m <= 200000. *)
ZDivModS(a, m) ==
    LET q8 == a[8] \div m
        t7 == (a[8] % m) * Radix + a[7]
        q7 == t7 \div m
        t6 == (t7 % m) * Radix + a[6]
        q6 == t6 \div m
        t5 == (t6 % m) * Radix + a[5]
        q5 == t5 \div m
        t4 == (t5 % m) * Radix + a[4]
        q4 == t4 \div m
        t3 == (t4 % m) * Radix + a[3]
        q3 == t3 \div m
        t2 == (t3 % m) * Radix + a[2]
        q2 == t2 \div m
        t1 == (t2 % m) * Radix + a[1]
        q1 == t1 \div m
    IN  <<<<q1, q2, q3, q4, q5, q6, q7, q8>>, t1 % m>>

(***************************************************************************)
(* Denominators.                                                           *)
(***************************************************************************)
Primes == <<2, 3, 5, 7, 37>>

EOne == [j \in DOMAIN Primes |-> 0]

EMul(e, f) == [j \in DOMAIN Primes |-> e[j] + f[j]]

(* The least common multiple of e and f. *)
ELcm(e, f) == [j \in DOMAIN Primes |-> IF e[j] >= f[j] THEN e[j] ELSE f[j]]

(* The quotient of e by its divisor f. *)
EDiv(e, f) == [j \in DOMAIN Primes |-> e[j] - f[j]]

(* The prime factors of e from the j-th prime on, with multiplicity. *)
RECURSIVE PrimeList(_, _)
PrimeList(e, j) ==
    IF j > Len(Primes) THEN <<>>
    ELSE IF e[j] = 0 THEN PrimeList(e, j + 1)
    ELSE <<Primes[j]>> \o PrimeList([e EXCEPT ![j] = @ - 1], j)

(* The factors ps and cur gathered into multipliers of at most 200000. *)
RECURSIVE Pack(_, _)
Pack(ps, cur) ==
    IF ps = <<>> THEN (IF cur = 1 THEN <<>> ELSE <<cur>>)
    ELSE IF cur * Head(ps) <= 200000 THEN Pack(Tail(ps), cur * Head(ps))
    ELSE <<cur>> \o Pack(Tail(ps), Head(ps))

(* Integers, each at most 200000, whose product is the denominator e. *)
Multipliers(e) == Pack(PrimeList(e, 1), 1)

(* z times the product of the multipliers ms. *)
RECURSIVE ZTimes(_, _)
ZTimes(z, ms) == IF ms = <<>> THEN z ELSE ZTimes(ZMulS(z, Head(ms)), Tail(ms))

(***************************************************************************)
(* Scalars: exact arithmetic standing for the script's float arithmetic.   *)
(***************************************************************************)
(* z over e brought to lowest terms, from the j-th prime on. *)
RECURSIVE Lowest(_, _, _)
Lowest(z, e, j) ==
    IF j > Len(Primes) THEN <<z, e>>
    ELSE IF e[j] = 0 THEN Lowest(z, e, j + 1)
    ELSE LET qr == ZDivModS(z, Primes[j])
         IN  IF qr[2] = 0 THEN Lowest(qr[1], [e EXCEPT ![j] = @ - 1], j)
             ELSE Lowest(z, e, j + 1)

Norm(z, e) == Lowest(z, e, 1)

Q(n) == <<ZFromInt(n), EOne>>

QAdd(p, q) ==
    LET m == ELcm(p[2], q[2])
    IN  Norm(ZAdd(ZTimes(p[1], Multipliers(EDiv(m, p[2]))),
                  ZTimes(q[1], Multipliers(EDiv(m, q[2])))), m)

QNeg(p) == <<ZNeg(p[1]), p[2]>>

QSub(p, q) == QAdd(p, QNeg(q))

QMul(p, q) == Norm(ZMul(p[1], q[1]), EMul(p[2], q[2]))

(* The whole number z > 0 as <<cofactor, exponents>> over Primes, from the *)
(* j-th prime on; the cofactor is 1 when z is a product of these primes.   *)
RECURSIVE Factor(_, _, _)
Factor(z, e, j) ==
    IF j > Len(Primes) THEN <<z, e>>
    ELSE LET qr == ZDivModS(z, Primes[j])
         IN  IF qr[2] = 0 THEN Factor(qr[1], [e EXCEPT ![j] = @ + 1], j)
             ELSE Factor(z, e, j + 1)

(* 1 / p, for p # 0 whose numerator is a product of the primes in Primes. *)
QInv(p) ==
    LET neg == ZIsNeg(p[1])
        f == Factor(IF neg THEN ZNeg(p[1]) ELSE p[1], EOne, 1)
        one == ZFromInt(IF neg THEN -1 ELSE 1)
    IN  IF f[1] = ZFromInt(1)
        THEN <<ZTimes(one, Multipliers(p[2])), f[2]>>
        ELSE "denominator outside Primes"

QDiv(p, q) == QMul(p, QInv(q))

RECURSIVE QSum(_)
QSum(s) == IF s = <<>> THEN Q(0) ELSE QAdd(Head(s), QSum(Tail(s)))

(***************************************************************************)
(* Arrays: the numpy operations the script uses, element by element.       *)
(***************************************************************************)
(* a[k]. *)
Item(a, k) == Norm(a[1][k], a[2])

(* np.arange(num): 0, 1, ..., num - 1. *)
arange(num) == <<[k \in 1..num |-> ZFromInt(k - 1)], EOne>>

(* np.full_like(a, q): q at every index of a. *)
full_like(a, q) == <<[k \in DOMAIN a[1] |-> q[1]], q[2]>>

(* a + b and a - b. *)
AAdd(a, b) ==
    LET m == ELcm(a[2], b[2])
        fa == Multipliers(EDiv(m, a[2]))
        fb == Multipliers(EDiv(m, b[2]))
    IN  <<[k \in DOMAIN a[1] |-> ZAdd(ZTimes(a[1][k], fa), ZTimes(b[1][k], fb))], m>>

ASub(a, b) ==
    LET m == ELcm(a[2], b[2])
        fa == Multipliers(EDiv(m, a[2]))
        fb == Multipliers(EDiv(m, b[2]))
    IN  <<[k \in DOMAIN a[1] |-> ZSub(ZTimes(a[1][k], fa), ZTimes(b[1][k], fb))], m>>

(* a + q and a - q, the scalar q broadcast. *)
AAddS(a, q) ==
    LET m == ELcm(a[2], q[2])
        fa == Multipliers(EDiv(m, a[2]))
        qz == ZTimes(q[1], Multipliers(EDiv(m, q[2])))
    IN  <<[k \in DOMAIN a[1] |-> ZAdd(ZTimes(a[1][k], fa), qz)], m>>

ASubS(a, q) == AAddS(a, QNeg(q))

(* a * q and a / q, the scalar q broadcast. *)
AMulS(a, q) == <<[k \in DOMAIN a[1] |-> ZMul(a[1][k], q[1])], EMul(a[2], q[2])>>

ADivS(a, q) == AMulS(a, QInv(q))

(* a ** 2. *)
ASquare(a) ==
    <<[k \in DOMAIN a[1] |-> LET z == a[1][k] IN ZMul(z, z)], EMul(a[2], a[2])>>

(* a >= q, a <= q, a > q: boolean arrays. *)
AGeS(a, q) ==
    LET m == ELcm(a[2], q[2])
        fa == Multipliers(EDiv(m, a[2]))
        qz == ZTimes(q[1], Multipliers(EDiv(m, q[2])))
    IN  [k \in DOMAIN a[1] |-> ZLe(qz, ZTimes(a[1][k], fa))]

ALeS(a, q) ==
    LET m == ELcm(a[2], q[2])
        fa == Multipliers(EDiv(m, a[2]))
        qz == ZTimes(q[1], Multipliers(EDiv(m, q[2])))
    IN  [k \in DOMAIN a[1] |-> ZLe(ZTimes(a[1][k], fa), qz)]

AGtS(a, q) ==
    LET m == ELcm(a[2], q[2])
        fa == Multipliers(EDiv(m, a[2]))
        qz == ZTimes(q[1], Multipliers(EDiv(m, q[2])))
    IN  [k \in DOMAIN a[1] |-> ZLt(qz, ZTimes(a[1][k], fa))]

(* c & d on boolean arrays. *)
MaskAnd(c, d) == [k \in DOMAIN c |-> c[k] /\ d[k]]

(* A boolean array used as numbers, as numpy does in mag * (x_vals >= pos). *)
AsNumber(c) == <<[k \in DOMAIN c |-> ZFromInt(IF c[k] THEN 1 ELSE 0)], EOne>>

(* np.where(c, a, b): a where c holds, b elsewhere. *)
where(c, a, b) ==
    LET m == ELcm(a[2], b[2])
        fa == Multipliers(EDiv(m, a[2]))
        fb == Multipliers(EDiv(m, b[2]))
    IN  <<[k \in DOMAIN c |-> IF c[k] THEN ZTimes(a[1][k], fa)
                                       ELSE ZTimes(b[1][k], fb)], m>>

(* a[c] -= b[c] and a[c] -= q: the update at the indices where c holds. *)
SubAt(a, c, b) == where(c, ASub(a, b), a)

SubAtS(a, c, q) == where(c, ASubS(a, q), a)

(* The running sums of zs[lo..hi] on top of acc. *)
RECURSIVE CumRun(_, _, _, _)
CumRun(zs, lo, hi, acc) ==
    IF lo > hi THEN <<>>
    ELSE LET t == ZAdd(acc, zs[lo])
         IN  <<t>> \o CumRun(zs, lo + 1, hi, t)

(* The running sums of zs[lo..n] on top of acc, 32 elements at a time. *)
RECURSIVE CumFrom(_, _, _, _)
CumFrom(zs, n, lo, acc) ==
    IF lo > n THEN <<>>
    ELSE LET hi == IF lo + 31 < n THEN lo + 31 ELSE n
             run == CumRun(zs, lo, hi, acc)
         IN  run \o CumFrom(zs, n, hi + 1, run[Len(run)])

(* Variant of cumsum: element k is the sum of the elements before k. *)
cumsum_exclusive(a) ==
    LET n == Cardinality(DOMAIN a[1])
    IN  <<CumFrom([k \in 1..n |-> IF k = 1 THEN ZZero ELSE a[1][k - 1]],
                  n, 1, ZZero), a[2]>>

(* np.cumsum: element k is the sum of the elements up to and including k. *)
cumsum(a) == <<CumFrom(a[1], Cardinality(DOMAIN a[1]), 1, ZZero), a[2]>>

(* The least of zs[lo..hi]. *)
RECURSIVE ZMin(_, _, _)
ZMin(zs, lo, hi) ==
    IF lo = hi THEN zs[lo]
    ELSE LET mid == (lo + hi) \div 2
             l == ZMin(zs, lo, mid)
             r == ZMin(zs, mid + 1, hi)
         IN  IF ZLe(l, r) THEN l ELSE r

(* a.min(). *)
AMin(a) == Norm(ZMin(a[1], 1, Cardinality(DOMAIN a[1])), a[2])

(***************************************************************************)
(* Unit conversions (lines 14, 15, 27, 34, 46).                            *)
(***************************************************************************)
E_SI(gpa) == QMul(Q(gpa), Q(1000000000))

I_SI(cm4) == QDiv(Q(cm4), Q(100000000))

kilo(k) == k * 1000

(***************************************************************************)
(* Range checks of the input section.                                      *)
(***************************************************************************)
(* Variant of load_out_of_range: the comparison turned round. *)
load_out_of_range_flipped(pos, len) == pos < len

(* Line 24: a point load is refused when its position is beyond the beam. *)
load_out_of_range(pos, len) == pos > len

(* Line 37: a UDL is refused when it is reversed or ends beyond the beam. *)
udl_out_of_range(a, b, len) == a > b \/ b > len

(* Line 48: an applied moment is refused when it is beyond the beam. *)
moment_out_of_range(pos, len) == pos > len

(***************************************************************************)
(* Reaction calculations (lines 54-60), over the validated inputs.         *)
(***************************************************************************)
total_point_load == QSum([k \in 1..Len(loads) |-> Q(loads[k][1])])

udl_load == IF use_udl THEN QMul(Q(w), Q(b_udl - a_udl)) ELSE Q(0)

(* Variant of udl_centroid: half the span, measured from the UDL's start. *)
udl_centroid_from_start == IF use_udl THEN QDiv(Q(b_udl - a_udl), Q(2)) ELSE Q(0)

udl_centroid == IF use_udl THEN QDiv(Q(a_udl + b_udl), Q(2)) ELSE Q(0)

moment_about_A ==
    QAdd(QAdd(QSum([k \in 1..Len(loads) |-> QMul(Q(loads[k][1]), Q(loads[k][2]))]),
              QMul(udl_load, udl_centroid)),
         QSum([k \in 1..Len(moments) |-> QNeg(Q(moments[k][1]))]))

(* Variant of total_load: the UDL resultant left out. *)
total_load_without_udl == total_point_load

total_load == QAdd(total_point_load, udl_load)

calc_RB == QDiv(moment_about_A, Q(L))

calc_RA == QSub(total_load, calc_RB)

(***************************************************************************)
(* Sample grid (lines 66-67).  np.linspace(0, L, 1000): 1000 equally       *)
(* spaced samples, both ends included.                                     *)
(***************************************************************************)
N == 1000

(* Variant of linspace: the end point left out (step = span / num). *)
linspace_open(start, stop, num) ==
    LET step == QDiv(QSub(stop, start), Q(num))
    IN  AAddS(AMulS(arange(num), step), start)

linspace(start, stop, num) ==
    LET step == QDiv(QSub(stop, start), Q(num - 1))
    IN  AAddS(AMulS(arange(num), step), start)

calc_x_vals == linspace(Q(0), Q(L), N)

calc_dx(xs) == QSub(Item(xs, 2), Item(xs, 1))

(***************************************************************************)
(* Shear and moment by superposition (lines 68-84).  Every operator takes  *)
(* the array built so far and returns the updated one, as the in-place     *)
(* numpy updates do.                                                       *)
(***************************************************************************)
(* Variant of load_mask: strictly beyond the load, x_vals > pos. *)
load_mask_strict(xs, pos) == AGtS(xs, Q(pos))

(* Lines 72, 73: the samples a point load acts on, x_vals >= pos. *)
load_mask(xs, pos) == AGeS(xs, Q(pos))

(* Line 72: V -= mag * (x_vals >= pos), one load. *)
V_load_step(v, xs, ld) ==
    ASub(v, AMulS(AsNumber(load_mask(xs, ld[2])), Q(ld[1])))

(* Line 73: M -= mag * np.where(x_vals >= pos, x_vals - pos, 0), one load. *)
M_load_step(m, xs, ld) ==
    ASub(m, AMulS(where(load_mask(xs, ld[2]),
                        ASubS(xs, Q(ld[2])),
                        full_like(xs, Q(0))),
                  Q(ld[1])))

(* Lines 71-73: the loop over the point loads. *)
RECURSIVE V_after_loads(_, _, _)
V_after_loads(v, xs, lds) ==
    IF lds = <<>> THEN v
    ELSE V_after_loads(V_load_step(v, xs, Head(lds)), xs, Tail(lds))

RECURSIVE M_after_loads(_, _, _)
M_after_loads(m, xs, lds) ==
    IF lds = <<>> THEN m
    ELSE M_after_loads(M_load_step(m, xs, Head(lds)), xs, Tail(lds))

(* Line 76: udl_zone = (x_vals >= a_udl) & (x_vals <= b_udl). *)
udl_zone(xs) == MaskAnd(AGeS(xs, Q(a_udl)), ALeS(xs, Q(b_udl)))

(* Lines 79, 81: the samples beyond the UDL, x_vals > b_udl. *)
past_udl(xs) == AGtS(xs, Q(b_udl))

(* Line 78: the ramp inside the zone, w * (x_udl - a_udl). *)
V_udl_ramp(xs) == AMulS(ASubS(xs, Q(a_udl)), Q(w))

(* Line 79: the full resultant beyond the zone, w * (b_udl - a_udl). *)
V_udl_past == QMul(Q(w), Q(b_udl - a_udl))

(* Line 80: the quadratic inside the zone, w * (x_udl - a_udl)**2 / 2. *)
M_udl_zone(xs) == ADivS(AMulS(ASquare(ASubS(xs, Q(a_udl))), Q(w)), Q(2))

(* Variant of M_udl_past: the quadratic term reached at b left out. *)
M_udl_past_linear_only(xs) ==
    AMulS(AMulS(ASubS(xs, Q(b_udl)), Q(b_udl - a_udl)), Q(w))

(* Line 81: the linear continuation beyond the zone,                       *)
(* w * ((b_udl - a_udl)**2 / 2 + (x - b_udl) * (b_udl - a_udl)).           *)
M_udl_past(xs) ==
    AMulS(AAddS(AMulS(ASubS(xs, Q(b_udl)), Q(b_udl - a_udl)),
                QDiv(Q((b_udl - a_udl) * (b_udl - a_udl)), Q(2))),
          Q(w))

(* Lines 75-79. *)
V_after_udl(v, xs) ==
    IF use_udl
    THEN SubAtS(SubAt(v, udl_zone(xs), V_udl_ramp(xs)), past_udl(xs), V_udl_past)
    ELSE v

(* Lines 75-77, 80-81. *)
M_after_udl(m, xs) ==
    IF use_udl
    THEN SubAt(SubAt(m, udl_zone(xs), M_udl_zone(xs)), past_udl(xs), M_udl_past(xs))
    ELSE m

(* Line 84: the samples an applied moment acts on, x_vals >= pos. *)
moment_mask(xs, pos) == AGeS(xs, Q(pos))

(* Line 84: M += mag * (x_vals >= pos), one applied moment. *)
M_moment_step(m, xs, mo) ==
    AAdd(m, AMulS(AsNumber(moment_mask(xs, mo[2])), Q(mo[1])))

(* Lines 83-84: the loop over the applied moments. *)
RECURSIVE M_after_moments(_, _, _)
M_after_moments(m, xs, mos) ==
    IF mos = <<>> THEN m
    ELSE M_after_moments(M_moment_step(m, xs, Head(mos)), xs, Tail(mos))

(* Lines 68, 71-72, 75-79. *)
calc_V(xs) ==
    V_after_udl(V_after_loads(full_like(xs, RA), xs, loads), xs)

(* Lines 69, 71-73, 75-84. *)
calc_M(xs) ==
    M_after_moments(
        M_after_udl(M_after_loads(AMulS(xs, RA), xs, loads), xs),
        xs, moments)

(***************************************************************************)
(* Slope and deflection (lines 86-88).                                     *)
(***************************************************************************)
(* Line 86: theta = np.cumsum(M / (E * I)) * dx. *)
calc_theta(m, d) == AMulS(cumsum(ADivS(m, QMul(E, I))), d)

(* Lines 87-88: y = np.cumsum(theta) * dx; y -= y.min(). *)
calc_y(th, d) ==
    LET s == AMulS(cumsum(th), d)
    IN  ASubS(s, AMin(s))

(***************************************************************************)
(* The run of the script.                                                  *)
(*   pc = "point_loads"  in the loop of lines 21-27                        *)
(*   pc = "udl"          before line 31                                    *)
(*   pc = "moments"      in the loop of lines 45-51                        *)
(*   pc = "reactions"    before line 54                                    *)
(*   pc = "fields"       before line 66                                    *)
(*   pc = "done"         after line 88                                     *)
(*   pc = "stopped"      after st.error / st.stop                          *)
(***************************************************************************)
NoError == <<>>
Unset == <<>>

(* Lines 11-19: the beam, the material and the number of point loads. *)
Init ==
    /\ L \in LengthValues
    /\ E \in {E_SI(e) : e \in ModulusValues}
    /\ I \in {I_SI(i) : i \in InertiaValues}
    /\ num_loads \in 0..MaxLoads
    /\ loads = <<>>
    /\ use_udl = FALSE
    /\ w = 0
    /\ a_udl = 0
    /\ b_udl = 0
    /\ num_moments = 0
    /\ moments = <<>>
    /\ pc = IF num_loads = 0 THEN "udl" ELSE "point_loads"
    /\ error = NoError
    /\ RA = Unset
    /\ RB = Unset
    /\ x_vals = Unset
    /\ dx = Unset
    /\ V = Unset
    /\ M = Unset
    /\ theta = Unset
    /\ y = Unset

(* Lines 21-27: one pass of the point-load loop. *)
ReadPointLoad ==
    /\ pc = "point_loads"
    /\ \E ld \in LoadInputs :
        IF load_out_of_range(ld[2], L)
        THEN /\ error' = <<"Load", Len(loads) + 1>>
             /\ pc' = "stopped"
             /\ UNCHANGED loads
        ELSE /\ loads' = Append(loads, <<kilo(ld[1]), ld[2]>>)
             /\ pc' = IF Len(loads) + 1 = num_loads THEN "udl" ELSE "point_loads"
             /\ UNCHANGED error
    /\ UNCHANGED <<L, E, I, num_loads, use_udl, w, a_udl, b_udl, num_moments,
                   moments, RA, RB, x_vals, dx, V, M, theta, y>>

(* Lines 31-43: the UDL block, then the number of applied moments. *)
ReadUDL ==
    /\ pc = "udl"
    /\ \/ /\ use_udl' = FALSE
          /\ UNCHANGED <<w, a_udl, b_udl, error>>
          /\ \E nm \in 0..MaxMoments :
                /\ num_moments' = nm
                /\ pc' = IF nm = 0 THEN "reactions" ELSE "moments"
       \/ /\ use_udl' = TRUE
          /\ \E u \in UdlInputs :
                /\ w' = kilo(u[1])
                /\ a_udl' = u[2]
                /\ b_udl' = u[3]
                /\ IF udl_out_of_range(u[2], u[3], L)
                   THEN /\ error' = <<"UDL", 0>>
                        /\ pc' = "stopped"
                        /\ UNCHANGED num_moments
                   ELSE /\ UNCHANGED error
                        /\ \E nm \in 0..MaxMoments :
                              /\ num_moments' = nm
                              /\ pc' = IF nm = 0 THEN "reactions" ELSE "moments"
    /\ UNCHANGED <<L, E, I, num_loads, loads, moments,
                   RA, RB, x_vals, dx, V, M, theta, y>>

(* Lines 45-51: one pass of the applied-moment loop. *)
ReadMoment ==
    /\ pc = "moments"
    /\ \E mo \in MomentInputs :
        IF moment_out_of_range(mo[2], L)
        THEN /\ error' = <<"Moment", Len(moments) + 1>>
             /\ pc' = "stopped"
             /\ UNCHANGED moments
        ELSE /\ moments' = Append(moments, <<kilo(mo[1]), mo[2]>>)
             /\ pc' = IF Len(moments) + 1 = num_moments THEN "reactions" ELSE "moments"
             /\ UNCHANGED error
    /\ UNCHANGED <<L, E, I, num_loads, loads, use_udl, w, a_udl, b_udl,
                   num_moments, RA, RB, x_vals, dx, V, M, theta, y>>

(* Lines 54-64: the reactions, computed and written out. *)
Reactions ==
    /\ pc = "reactions"
    /\ RB' = calc_RB
    /\ RA' = calc_RA
    /\ pc' = "fields"
    /\ UNCHANGED <<L, E, I, num_loads, loads, use_udl, w, a_udl, b_udl,
                   num_moments, moments, error, x_vals, dx, V, M, theta, y>>

(* Lines 66-88: the sampled arrays. *)
Fields ==
    /\ pc = "fields"
    /\ x_vals' = calc_x_vals
    /\ dx' = calc_dx(x_vals')
    /\ V' = calc_V(x_vals')
    /\ M' = calc_M(x_vals')
    /\ theta' = calc_theta(M', dx')
    /\ y' = calc_y(theta', dx')
    /\ pc' = "done"
    /\ UNCHANGED <<L, E, I, num_loads, loads, use_udl, w, a_udl, b_udl,
                   num_moments, moments, error, RA, RB>>

Next == ReadPointLoad \/ ReadUDL \/ ReadMoment \/ Reactions \/ Fields

Spec == Init /\ [][Next]_vars

(***************************************************************************)
(* Vocabulary of the properties.                                           *)
(***************************************************************************)
SolverReached == pc \in {"reactions", "fields", "done"}
ReactionsKnown == pc \in {"fields", "done"}
OutputsUnset ==
    /\ RA = Unset /\ RB = Unset /\ x_vals = Unset /\ dx = Unset
    /\ V = Unset /\ M = Unset /\ theta = Unset /\ y = Unset

(* The data model's placement invariants. *)
LoadsWithinBeam == \A k \in 1..Len(loads) : 0 <= loads[k][2] /\ loads[k][2] <= L
MomentsWithinBeam == \A k \in 1..Len(moments) : 0 <= moments[k][2] /\ moments[k][2] <= L
UdlWithinBeam == use_udl => (0 <= a_udl /\ a_udl <= b_udl /\ b_udl <= L)

(* Comparisons of scalars. *)
QLe(p, q) == ~ZIsNeg(QSub(q, p)[1])

QLt(p, q) == ZIsNeg(QSub(p, q)[1])

QGt(p, q) == QLt(q, p)

(* a < q: boolean array. *)
ALtS(a, q) ==
    LET m == ELcm(a[2], q[2])
        fa == Multipliers(EDiv(m, a[2]))
        qz == ZTimes(q[1], Multipliers(EDiv(m, q[2])))
    IN  [k \in DOMAIN a[1] |-> ZLt(ZTimes(a[1][k], fa), qz)]

(* The array a held as a stored sequence. *)
Stored(a) == <<SubSeq(a[1], 1, Cardinality(DOMAIN a[1])), a[2]>>

RECURSIVE IntSum(_)
IntSum(s) == IF s = <<>> THEN 0 ELSE Head(s) + IntSum(Tail(s))

(* Arrays a and b hold the same numbers. *)
AEq(a, b) ==
    LET m == ELcm(a[2], b[2])
        fa == Multipliers(EDiv(m, a[2]))
        fb == Multipliers(EDiv(m, b[2]))
    IN  /\ DOMAIN a[1] = DOMAIN b[1]
        /\ \A k \in DOMAIN a[1] : ZTimes(a[1][k], fa) = ZTimes(b[1][k], fb)

(* The elements of a but the last, and but the first: Front(a)[k] and      *)
(* Rest(a)[k] are two adjacent elements of a.                              *)
Front(a) == <<[k \in 1..(Cardinality(DOMAIN a[1]) - 1) |-> a[1][k]], a[2]>>
Rest(a) == <<[k \in 1..(Cardinality(DOMAIN a[1]) - 1) |-> a[1][k + 1]], a[2]>>

(* The array holding the one scalar q. *)
Single(q) == <<<<q[1]>>, q[2]>>

Zeros(a) == full_like(a, Q(0))

(* Element by element, the lesser of a and q, and the greater. *)
AMinS(a, q) == where(ALeS(a, q), a, full_like(a, q))
AMaxS(a, q) == where(AGeS(a, q), a, full_like(a, q))

(* The UDL's share of the shear at the samples xs, as the design states    *)
(* it: 0 before a, w (x - a) on [a, b], w (b - a) after b.                 *)
ShearUdlTerm(xs) ==
    IF ~use_udl THEN Zeros(xs)
    ELSE where(ALtS(xs, Q(a_udl)), Zeros(xs),
               where(ALeS(xs, Q(b_udl)),
                     AMulS(ASubS(xs, Q(a_udl)), Q(w)),
                     full_like(xs, Q(w * (b_udl - a_udl)))))

(* The UDL's share of the moment at the samples xs, as the design states   *)
(* it: 0 before a, w (x - a)^2 / 2 on [a, b],                              *)
(* w ((b - a)^2 / 2 + (x - b)(b - a)) after b.                             *)
MomentUdlTerm(xs) ==
    IF ~use_udl THEN Zeros(xs)
    ELSE where(ALtS(xs, Q(a_udl)), Zeros(xs),
               where(ALeS(xs, Q(b_udl)),
                     AMulS(ASquare(ASubS(xs, Q(a_udl))), QDiv(Q(w), Q(2))),
                     AAddS(AMulS(ASubS(xs, Q(b_udl)), Q(w * (b_udl - a_udl))),
                           QDiv(Q(w * (b_udl - a_udl) * (b_udl - a_udl)), Q(2)))))

(* At each index, the sum of the magnitudes of the items of s placed in    *)
(* (lo, hi].                                                               *)
RECURSIVE MagnitudesIn(_, _, _)
MagnitudesIn(s, lo, hi) ==
    IF s = <<>> THEN Zeros(lo)
    ELSE AAdd(AMulS(AsNumber(MaskAnd(ALtS(lo, Q(Head(s)[2])),
                                     AGeS(hi, Q(Head(s)[2])))),
                    Q(Head(s)[1])),
              MagnitudesIn(Tail(s), lo, hi))

(* At each sample, the sum of the magnitudes of the items of s placed at   *)
(* or before it.                                                           *)
RECURSIVE MagnitudesUpTo(_, _)
MagnitudesUpTo(s, xs) ==
    IF s = <<>> THEN Zeros(xs)
    ELSE AAdd(AMulS(AsNumber(AGeS(xs, Q(Head(s)[2]))), Q(Head(s)[1])),
              MagnitudesUpTo(Tail(s), xs))

(* At each sample x, the sum of magnitude * (x - position) over the loads  *)
(* placed at or before it.                                                 *)
RECURSIVE LeverUpTo(_, _)
LeverUpTo(s, xs) ==
    IF s = <<>> THEN Zeros(xs)
    ELSE AAdd(where(AGeS(xs, Q(Head(s)[2])),
                    AMulS(ASubS(xs, Q(Head(s)[2])), Q(Head(s)[1])),
                    Zeros(xs)),
              LeverUpTo(Tail(s), xs))

(* At each index, the length of the part of [lo, hi] the UDL covers. *)
UdlOverlap(lo, hi) ==
    IF ~use_udl THEN Zeros(lo)
    ELSE LET d == Stored(ASub(AMinS(hi, Q(b_udl)), AMaxS(lo, Q(a_udl))))
         IN  where(AGtS(d, Q(0)), d, Zeros(d))

(***************************************************************************)
(* C1.  Point-load and applied-moment positions are validated against      *)
(* [0, L]: the Reaction Solver and the Field Evaluator are only reached     *)
(* with every point-load position and every applied-moment position        *)
(* inside [0, L].  The script checks pos > L only, so a negative position   *)
(* passes.                                                                 *)
(***************************************************************************)
C1_PositionsWithinBeam ==
    SolverReached => (LoadsWithinBeam /\ MomentsWithinBeam)

(***************************************************************************)
(* C2.  A UDL is accepted only if 0 <= a <= b <= L: the Reaction Solver is *)
(* never reached with a UDL span partly outside the beam or reversed.  The *)
(* script checks a > b and b > L only, so a negative start passes.         *)
(***************************************************************************)
C2_UdlWithinBeam ==
    SolverReached => UdlWithinBeam

(***************************************************************************)
(* C3.  Validation failures are terminal with no partial results: a run    *)
(* that reported an error has stopped, takes no further step and has       *)
(* produced no reaction and no array; and any output exists only after     *)
(* every load, the UDL and every moment were read and passed the checks of *)
(* lines 24, 37 and 48.                                                    *)
(***************************************************************************)
C3_NoPartialResults ==
    /\ (error # NoError) <=> (pc = "stopped")
    /\ pc = "stopped" => (OutputsUnset /\ ~ENABLED Next)
    /\ ~OutputsUnset =>
          /\ error = NoError
          /\ Len(loads) = num_loads
          /\ Len(moments) = num_moments
          /\ \A k \in 1..Len(loads) : loads[k][2] <= L
          /\ use_udl => (a_udl <= b_udl /\ b_udl <= L)
          /\ \A k \in 1..Len(moments) : moments[k][2] <= L

(* A run with L = 10 stopped at its first point load (position 12). *)
C3_Witness ==
    /\ pc = "stopped" /\ error = <<"Load", 1>> /\ L = 10 /\ OutputsUnset

(***************************************************************************)
(* C4.  Moment equilibrium about x = 0:                                    *)
(*   RB * L = sum(mag * pos) + w * (b - a) * (a + b) / 2 - sum(moments),   *)
(* the UDL term being zero without a UDL; and for L = 10 with only a UDL   *)
(* of 2 kN/m over [2, 6], RB = 3.2 kN and RA = 4.8 kN.                     *)
(* Stated doubled, in whole numbers of N.m.                                *)
(***************************************************************************)
C4_MomentEquilibrium ==
    ReactionsKnown =>
      /\ QMul(RB, Q(2 * L)) =
            Q(2 * IntSum([k \in 1..Len(loads) |-> loads[k][1] * loads[k][2]])
              + (IF use_udl THEN w * (b_udl - a_udl) * (a_udl + b_udl) ELSE 0)
              - 2 * IntSum([k \in 1..Len(moments) |-> moments[k][1]]))
      /\ (/\ L = 10 /\ loads = <<>> /\ moments = <<>>
          /\ use_udl /\ w = 2000 /\ a_udl = 2 /\ b_udl = 6)
         => (RB = Q(3200) /\ RA = Q(4800))

C4_Witness ==
    /\ pc = "done" /\ L = 10 /\ loads = <<>> /\ moments = <<>>
    /\ use_udl /\ w = 2000 /\ a_udl = 2 /\ b_udl = 6
    /\ RB = Q(3200)

(***************************************************************************)
(* C5.  Vertical equilibrium: RA + RB equals the sum of the point-load     *)
(* magnitudes plus the UDL resultant w * (b - a), whatever the applied     *)
(* moments are.                                                            *)
(***************************************************************************)
C5_VerticalEquilibrium ==
    ReactionsKnown =>
        QAdd(RA, RB) =
            Q(IntSum([k \in 1..Len(loads) |-> loads[k][1]])
              + (IF use_udl THEN w * (b_udl - a_udl) ELSE 0))

(* A point load, a UDL with a non-zero resultant and an applied moment. *)
C5_Witness ==
    /\ pc = "done" /\ Len(loads) = 1 /\ use_udl /\ a_udl < b_udl
    /\ Len(moments) = 1 /\ RA # RB

(***************************************************************************)
(* C6.  Applied-moment sign consistency: for every load case whose items   *)
(* all lie on the beam, the bending moment at the roller support x = L     *)
(* (the last sample) is zero.  The script subtracts the applied moments in *)
(* the reaction equation and adds them in the moment field, which leaves   *)
(* twice their sum at x = L.                                               *)
(***************************************************************************)
C6_MomentZeroAtRoller ==
    (pc = "done" /\ LoadsWithinBeam /\ MomentsWithinBeam /\ UdlWithinBeam)
        => Item(M, N) = Q(0)

(***************************************************************************)
(* C7.  Shear field: at every sample x,                                    *)
(*   V(x) = RA - sum of the loads at pos <= x - UDL term,                  *)
(* the UDL term being 0 before a, w * (x - a) on [a, b] and w * (b - a)    *)
(* after b.  Hence between two adjacent samples the shear drops by the     *)
(* loads placed in between plus w times the covered length (no jump at a   *)
(* or b), and the ramp meets both neighbouring pieces at a and at b.       *)
(***************************************************************************)
C7_ShearField ==
    pc = "done" =>
      /\ AEq(V, ASub(ASub(full_like(x_vals, RA), MagnitudesUpTo(loads, x_vals)),
                     ShearUdlTerm(x_vals)))
      /\ AEq(ASub(Front(V), Rest(V)),
             AAdd(MagnitudesIn(loads, Front(x_vals), Rest(x_vals)),
                  AMulS(UdlOverlap(Front(x_vals), Rest(x_vals)), Q(w))))
      /\ use_udl => /\ Item(V_udl_ramp(Single(Q(a_udl))), 1) = Q(0)
                    /\ Item(V_udl_ramp(Single(Q(b_udl))), 1) = V_udl_past

(* L = 9: a load on a sample (x = 5 is sample 556), a UDL over [2, 6] with *)
(* samples at a (223), inside, at b (667) and beyond; the shear drops      *)
(* between samples 555 and 556.                                            *)
C7_Witness ==
    /\ pc = "done" /\ L = 9 /\ use_udl /\ a_udl = 2 /\ b_udl = 6
    /\ Len(loads) = 1 /\ loads[1][2] = 5
    /\ Item(x_vals, 556) = Q(5)
    /\ Item(x_vals, 223) = Q(2)
    /\ Item(x_vals, 667) = Q(6)
    /\ QSub(Item(V, 555), Item(V, 556)) =
          QAdd(Q(loads[1][1]), QMul(Q(w), dx))

(***************************************************************************)
(* C8.  Moment field: at every sample x,                                   *)
(*   M(x) = RA * x - sum over loads at pos <= x of mag * (x - pos)         *)
(*          - U(x) + sum of the applied moments at pos <= x,               *)
(* U being 0 before a, w (x - a)^2 / 2 on [a, b] and                       *)
(* w ((b - a)^2 / 2 + (x - b)(b - a)) after b.  U is continuous at a and   *)
(* at b, so between adjacent samples with no applied moment in between the *)
(* moment changes only by the continuous part, and by the moment's         *)
(* magnitude more when one lies in between.                                *)
(***************************************************************************)
MomentContinuousPart(xs) ==
    ASub(ASub(AMulS(xs, RA), LeverUpTo(loads, xs)), MomentUdlTerm(xs))

C8_MomentField ==
    pc = "done" =>
      LET cont == Stored(MomentContinuousPart(x_vals))
      IN  /\ AEq(M, AAdd(cont, MagnitudesUpTo(moments, x_vals)))
          /\ AEq(ASub(ASub(Rest(M), Front(M)), ASub(Rest(cont), Front(cont))),
                 MagnitudesIn(moments, Front(x_vals), Rest(x_vals)))
          /\ use_udl =>
                /\ Item(M_udl_zone(Single(Q(a_udl))), 1) = Q(0)
                /\ Item(M_udl_zone(Single(Q(b_udl))), 1)
                     = Item(M_udl_past(Single(Q(b_udl))), 1)

(* L = 10: a load, a UDL with samples inside and beyond it, and an applied *)
(* moment strictly between samples 400 and 401, where the moment sequence  *)
(* jumps.                                                                  *)
C8_Witness ==
    /\ pc = "done" /\ L = 10 /\ use_udl /\ a_udl = 2 /\ b_udl = 6
    /\ Len(loads) = 1 /\ Len(moments) = 1 /\ moments[1][2] = 4
    /\ QLt(Item(x_vals, 400), Q(4)) /\ QLt(Q(4), Item(x_vals, 401))
    /\ QGt(Item(x_vals, N), Q(b_udl))
    /\ QGt(QSub(Item(M, 401), Item(M, 400)), Q(moments[1][1] - 1000))

(***************************************************************************)
(* C9.  Symmetric midspan load: a single point load P > 0 at x = L / 2, no *)
(* UDL, no applied moment.                                                 *)
(***************************************************************************)
SymmetricCase ==
    /\ Len(loads) = 1 /\ 2 * loads[1][2] = L /\ loads[1][1] > 0
    /\ ~use_udl /\ moments = <<>>

Half(n) == QDiv(Q(n), Q(2))

SymmetricReactionsAndShear ==
    LET P == loads[1][1]
    IN  /\ RA = Half(P) /\ RB = Half(P)
        /\ \A k \in 1..N :
              /\ QLt(Item(x_vals, k), Half(L)) => Item(V, k) = Half(P)
              /\ QGt(Item(x_vals, k), Half(L)) => Item(V, k) = Half(-P)

(* C9 as claimed: RA = RB = P / 2, the shear is +P / 2 left and -P / 2     *)
(* right of midspan, and the maximum of the moment sequence is attained at *)
(* x = L / 2 with value P * L / 4.                                         *)
C9_MaxAtMidspan ==
    (pc = "done" /\ SymmetricCase) =>
      /\ SymmetricReactionsAndShear
      /\ \E k \in 1..N :
            /\ Item(x_vals, k) = Half(L)
            /\ Item(M, k) = QDiv(Q(loads[1][1] * L), Q(4))
            /\ \A j \in 1..N : QLe(Item(M, j), Item(M, k))

(* C9 as amended: RA = RB = P / 2 and the shear is +P / 2 left and -P / 2  *)
(* right of midspan; the grid has an even number of samples, so none is at *)
(* x = L / 2, and the maximum of the moment sequence is attained at the    *)
(* two samples next to midspan, x = L / 2 -+ dx / 2, with value            *)
(* (P * L / 4) * (N - 2) / (N - 1), strictly below P * L / 4.              *)
C9_MaxBesideMidspan ==
    (pc = "done" /\ SymmetricCase) =>
      LET P == loads[1][1]
          peak == QMul(QDiv(Q(P * L), Q(4)), QDiv(Q(N - 2), Q(N - 1)))
      IN  /\ SymmetricReactionsAndShear
          /\ \A k \in 1..N : Item(x_vals, k) # Half(L)
          /\ Item(x_vals, N \div 2) = QSub(Half(L), QDiv(dx, Q(2)))
          /\ Item(x_vals, N \div 2 + 1) = QAdd(Half(L), QDiv(dx, Q(2)))
          /\ \A k \in 1..N :
                /\ QLe(Item(M, k), peak)
                /\ (Item(M, k) = peak) <=> (k \in {N \div 2, N \div 2 + 1})
          /\ QLt(peak, QDiv(Q(P * L), Q(4)))

(* The spec's case: L = 10, 10 kN at x = 5; the peak of the moment         *)
(* sequence is 25000 * 998 / 999 N.m.                                      *)
C9_Witness ==
    /\ pc = "done" /\ SymmetricCase /\ L = 10 /\ loads[1] = <<10000, 5>>
    /\ RA = Q(5000) /\ RB = Q(5000)
    /\ Item(M, 500) = QDiv(Q(24950000), Q(999))

(***************************************************************************)
(* C10.  Slope integration.  A running sum is stated by its first element  *)
(* and the difference of every two adjacent elements.                      *)
(***************************************************************************)
(* dx * M / (E I), with dx = L / (N - 1). *)
SlopeIncrements == AMulS(ADivS(M, QMul(E, I)), QDiv(Q(L), Q(N - 1)))

(* C10 as claimed: the slope at the first sample is 0 and the slope at     *)
(* sample k is dx times the sum of M / (E I) over the samples before k     *)
(* (left-rectangle rule), dx = L / (N - 1): each sample adds the increment *)
(* of the sample before it.                                                *)
C10_SlopeExclusiveSum ==
    pc = "done" =>
      /\ dx = QDiv(Q(L), Q(N - 1))
      /\ Item(theta, 1) = Q(0)
      /\ AEq(ASub(Rest(theta), Front(theta)), Front(SlopeIncrements))

(* C10 as amended: the slope at sample k is dx times the sum of M / (E I)  *)
(* over the samples up to and including k, dx = L / (N - 1); the slope at  *)
(* the first sample is dx * M(0) / (E I), and each sample adds its own     *)
(* increment.                                                              *)
C10_SlopeInclusiveSum ==
    pc = "done" =>
      /\ dx = QDiv(Q(L), Q(N - 1))
      /\ Item(theta, 1) = Item(SlopeIncrements, 1)
      /\ AEq(ASub(Rest(theta), Front(theta)), Rest(SlopeIncrements))

(* A point load left of the first sample makes the first moment sample,    *)
(* and with it the first slope sample, non-zero.                           *)
C10_Witness ==
    /\ pc = "done"
    /\ Item(M, 1) # Q(0) /\ Item(theta, 1) # Q(0)
    /\ Item(theta, 2) # Item(theta, 1)

====
